---- MODULE Spec2Model ----
(***************************************************************************)
(* A model of the document-to-chunk pipeline of simple-rag                 *)
(* (utils/chunking.py) and of the upload/delete handlers that persist the  *)
(* chunks (app.py).                                                        *)
(*                                                                         *)
(* A text is represented by its cl100k token sequence: a token is a triple *)
(* <<k, j, w>>, the j-th token of input sentence k, with w = TRUE when the *)
(* token holds whitespace only.  The separator that " ".join puts between  *)
(* sentences is the token <<0, 0, TRUE>>, a token of no sentence.          *)
(*                                                                         *)
(* The sentences given to chunk_sentences are those split_sentences can    *)
(* produce (trimmed text, so that _tok_len(ss.text) in the overlap walk is *)
(* the s_tokens counted when the sentence was accumulated; pages all None  *)
(* or non-decreasing), and blank sentences, which the loop provides for.   *)
(* The overlap budget is non-negative.                                     *)
(***************************************************************************)
EXTENDS Integers, Sequences, FiniteSets, TLC

\* ---- bounds of the model ----
MaxSents == 3
MaxT == 2
MaxO == 2
MaxPage == 1
\* finalize applied on its own: pages, sentences per chunk, chunk numbers
MaxLabelPage == 5
MaxLabelLen == 3
MaxLabelNo == 7
\* _split_text_by_tokens applied on its own: tokens, budget, overlap
MaxSplitLen == 8
MaxSplitT == 4
MaxSplitO == 5
\* the application: uploads, concurrent requests, chunks per document
MaxFiles == 2
MaxReqs == 2
MaxChunks == 2

\* config.py
TARGET_CHUNK_TOKENS == 2000
OVERLAP_TOKENS == 200

\* page = None (parsers.py: Optional[int]); real pages are 1-based
NoPage == 0

VARIABLES
    sentences,        \* chunk_sentences: the input list
    target_tokens,    \* chunk_sentences: T
    overlap_tokens,   \* chunk_sentences: O
    i,                \* chunk_sentences: input pointer (0-based)
    cur,              \* chunk_sentences: accumulator
    cur_toks,         \* chunk_sentences: accumulator token count
    chunk_no,         \* chunk_sentences: next chunk number
    chunks,           \* chunk_sentences: emitted chunks
    pc,               \* "loop" inside the while loop, "done" after return
    iters,            \* number of main-loop iterations executed so far
    retries,          \* finalize-and-retry iterations since i last advanced
    fz_current,       \* finalize on its own: the sentence set
    fz_n,             \* finalize on its own: the chunk number
    fz_out,           \* finalize on its own: the chunk returned
    sp_text,          \* _split_text_by_tokens on its own: text
    sp_max,           \* _split_text_by_tokens on its own: max_tokens
    sp_overlap,       \* _split_text_by_tokens on its own: overlap_tokens
    sp_out,           \* _split_text_by_tokens on its own: the pieces returned
    rows,             \* db: the files table, as <<id, num_chunks>>
    store,            \* chroma: the collection's entries, as <<file_id, chunk_number>>
    disk,             \* UPLOAD_DIR: the stored uploads, by file id
    next_id,          \* the next uuid4 drawn
    reqs              \* the requests being handled, one per server thread

chunkVars == <<sentences, target_tokens, overlap_tokens, i, cur, cur_toks,
               chunk_no, chunks, pc, iters, retries>>
finalizeVars == <<fz_current, fz_n, fz_out>>
splitVars == <<sp_text, sp_max, sp_overlap, sp_out>>
appVars == <<rows, store, disk, next_id, reqs>>

vars == <<chunkVars, finalizeVars, splitVars, appVars>>

file_name == "doc"

\* ---- text primitives ----
Space == <<0, 0, TRUE>>

IsSpace(tok) == tok[3]

RECURSIVE lstrip(_)
lstrip(text) ==
    IF text = <<>> THEN <<>>
    ELSE IF IsSpace(Head(text)) THEN lstrip(Tail(text)) ELSE text

RECURSIVE rstrip(_)
rstrip(text) ==
    IF text = <<>> THEN <<>>
    ELSE IF IsSpace(text[Len(text)]) THEN rstrip(SubSeq(text, 1, Len(text) - 1))
    ELSE text

\* str.strip()
strip(text) == rstrip(lstrip(text))

\* ENC.encode / ENC.decode on the token representation
encode(text) == text
decode(toks) == toks

tok_len(s) == Len(encode(s))

Min2(a, b) == IF a <= b THEN a ELSE b
Max2(a, b) == IF a >= b THEN a ELSE b

RECURSIVE SeqSum(_)
SeqSum(q) == IF q = <<>> THEN 0 ELSE Head(q) + SeqSum(Tail(q))

\* " ".join(texts)
RECURSIVE join(_)
join(texts) ==
    IF texts = <<>> THEN <<>>
    ELSE IF Len(texts) = 1 THEN texts[1]
    ELSE texts[1] \o <<Space>> \o join(Tail(texts))

\* ---- _page_range ----
\* mutant: sorted(pages), without set(): a repeated page stays repeated
RECURSIVE InsertSortedDup(_, _)
InsertSortedDup(q, p) ==
    IF q = <<>> THEN <<p>>
    ELSE IF p <= Head(q) THEN <<p>> \o q
    ELSE <<Head(q)>> \o InsertSortedDup(Tail(q), p)

\* sorted(set(pages)): insertion of each element into an ascending list
RECURSIVE InsertSorted(_, _)
InsertSorted(q, p) ==
    IF q = <<>> THEN <<p>>
    ELSE IF p = Head(q) THEN q
    ELSE IF p < Head(q) THEN <<p>> \o q
    ELSE <<Head(q)>> \o InsertSorted(Tail(q), p)

RECURSIVE SortedSet(_)
SortedSet(pages) ==
    IF pages = <<>> THEN <<>>
    ELSE InsertSorted(SortedSet(Tail(pages)), Head(pages))

RECURSIVE JoinComma(_)
JoinComma(ps) ==
    IF Len(ps) = 1 THEN ToString(ps[1])
    ELSE ToString(ps[1]) \o "," \o JoinComma(Tail(ps))

Consecutive(ps) == \A x \in 1..(Len(ps) - 1) : ps[x] + 1 = ps[x + 1]

page_range(pages) ==
    LET ps == SortedSet(pages) IN
    IF ps = <<>> THEN ""
    ELSE IF Len(ps) = 1 THEN ToString(ps[1])
    ELSE IF Consecutive(ps) THEN ToString(ps[1]) \o "-" \o ToString(ps[Len(ps)])
    ELSE JoinComma(ps)

\* ---- _split_text_by_tokens ----
\* mutant: the overlap is not taken off the step
SplitStepNoOverlap(max_tokens, overlap_tokens_) == max_tokens

SplitStep(max_tokens, overlap_tokens_) ==
    LET step == max_tokens - Max2(0, overlap_tokens_) IN
    IF step <= 0 THEN max_tokens ELSE step

\* the windows [start, end) the while loop visits, from `start` on
RECURSIVE SplitWindowsFrom(_, _, _, _)
SplitWindowsFrom(start, n, max_tokens, step) ==
    IF ~(start < n) THEN <<>>
    ELSE LET end == Min2(start + max_tokens, n) IN
         IF end = n THEN << <<start, end>> >>
         ELSE << <<start, end>> >> \o SplitWindowsFrom(start + step, n, max_tokens, step)

SplitWindows(n, max_tokens, overlap_tokens_) ==
    SplitWindowsFrom(0, n, max_tokens, SplitStep(max_tokens, overlap_tokens_))

\* toks[start:end] of a 0-based half-open window
Slice(toks, w) == SubSeq(toks, w[1] + 1, w[2])

\* mutant: the piece is appended without the emptiness test
PieceOfKeepEmpty(toks, w) == << strip(decode(Slice(toks, w))) >>

\* the piece kept for a window: appended only when non-empty after strip
PieceOf(toks, w) ==
    LET piece == strip(decode(Slice(toks, w))) IN
    IF piece /= <<>> THEN << piece >> ELSE <<>>

RECURSIVE PiecesOf(_, _)
PiecesOf(toks, ws) ==
    IF ws = <<>> THEN <<>>
    ELSE PieceOf(toks, Head(ws)) \o PiecesOf(toks, Tail(ws))

split_text_by_tokens(text, max_tokens, overlap_tokens_) ==
    LET toks == encode(text) IN
    IF Len(toks) <= max_tokens THEN << text >>
    ELSE PiecesOf(toks, SplitWindows(Len(toks), max_tokens, overlap_tokens_))

\* ---- chunk_sentences.finalize ----
Sentence(text, page) == [text |-> text, page |-> page]

PagesOf(current) ==
    LET nonNull == SelectSeq(current, LAMBDA s : s.page /= NoPage) IN
    [x \in 1..Len(nonNull) |-> nonNull[x].page]

PageStr(current, n) ==
    LET page_str == page_range(PagesOf(current)) IN
    IF page_str = "" THEN ToString(n) ELSE page_str

finalize(current, n) ==
    LET raw == strip(join([x \in 1..Len(current) |-> current[x].text])) IN
    [chunk_number |-> n,
     page_number |-> PageStr(current, n),
     embedded_text |-> <<file_name, raw>>,
     raw_text |-> raw]

\* ---- chunk_sentences: inputs ----
Words(k, n) == [j \in 1..n |-> <<k, j, FALSE>>]

\* as Words, with a whitespace-only token (e.g. the " " before a number) second
Gapped(k, n) == [j \in 1..n |-> <<k, j, j = 2>>]

\* a blank sentence, and texts of up to one token more than the largest
\* budget, so that every budget meets sentences it cannot hold
TextsAt(k) ==
    {<< <<k, 1, TRUE>> >>}
      \cup {Words(k, n) : n \in 1..(MaxT + 1)}
      \cup {Gapped(k, n) : n \in 3..(MaxT + 1)}

\* parse_txt/parse_docx give page None throughout; parse_pdf gives the
\* 1-based page of each sentence, non-decreasing in reading order
PageLists(n) ==
    {[k \in 1..n |-> NoPage]}
      \cup {f \in [1..n -> 1..MaxPage] : \A k \in 1..(n - 1) : f[k] <= f[k + 1]}

SentenceLists(longest) ==
    UNION {
        {[k \in 1..n |-> Sentence(tx[k], pg[k])] :
            tx \in {f \in [1..n -> UNION {TextsAt(k) : k \in 1..n}] :
                      \A k \in 1..n : f[k] \in TextsAt(k)},
            pg \in PageLists(n)}
        : n \in 0..longest}

\* ---- chunk_sentences: the main loop ----
CurSentence == sentences[i + 1]
CurText == strip(CurSentence.text)

\* mutant: the text is tested without being trimmed
IsBlankUntrimmed(s) == s.text = <<>>

\* t = (s.text or "").strip(); if not t
IsBlank(s) == strip(s.text) = <<>>

\* mutant: chunk_no is not advanced after the flush
AfterFlushNoStale(n, flushed) == n

\* chunk_no after the flush of a non-empty accumulator
AfterFlushNo(n, flushed) == n + Len(flushed)

InLoop == pc = "loop" /\ i < Len(sentences)

\* the parts of the model a specification does not exercise
ChunkerIdle ==
    /\ sentences = <<>>
    /\ target_tokens = 1
    /\ overlap_tokens = 0
    /\ i = 0
    /\ cur = <<>>
    /\ cur_toks = 0
    /\ chunk_no = 1
    /\ chunks = <<>>
    /\ pc = "idle"
    /\ iters = 0
    /\ retries = 0

FinalizeIdle == fz_current = <<>> /\ fz_n = 1 /\ fz_out = <<>>

SplitIdle == sp_text = <<>> /\ sp_max = 1 /\ sp_overlap = 0 /\ sp_out = <<>>

AppIdle ==
    /\ rows = {}
    /\ store = {}
    /\ disk = {}
    /\ next_id = 1
    /\ reqs = <<>>

Init ==
    /\ FinalizeIdle /\ SplitIdle /\ AppIdle
    /\ sentences \in SentenceLists(MaxSents)
    /\ target_tokens \in 1..MaxT
    /\ overlap_tokens \in 0..MaxO
    /\ i = 0
    /\ cur = <<>>
    /\ cur_toks = 0
    /\ chunk_no = 1
    /\ chunks = <<>>
    /\ pc = "loop"
    /\ iters = 0
    /\ retries = 0

\* if not t: i += 1; continue
SkipBlank ==
    /\ InLoop
    /\ IsBlank(CurSentence)
    /\ i' = i + 1
    /\ iters' = iters + 1
    /\ retries' = 0
    /\ UNCHANGED <<sentences, target_tokens, overlap_tokens, cur, cur_toks,
                   chunk_no, chunks, pc>>
    /\ UNCHANGED <<finalizeVars, splitVars, appVars>>

\* mutant: the pieces do not carry the sentence's page
OversizedChunksNoPage(s, current, n) ==
    LET flushed == IF current /= <<>> THEN << finalize(current, n) >> ELSE <<>>
        n1 == AfterFlushNo(n, flushed)
        parts == split_text_by_tokens(strip(s.text), target_tokens, overlap_tokens)
    IN flushed \o [p \in 1..Len(parts) |->
                     finalize(<< Sentence(parts[p], NoPage) >>, n1 + p - 1)]

\* the chunks the oversized branch appends: the flushed accumulator, if any,
\* then one single-sentence chunk per part, numbered from chunk_no on
OversizedChunks(s, current, n) ==
    LET flushed == IF current /= <<>> THEN << finalize(current, n) >> ELSE <<>>
        n1 == AfterFlushNo(n, flushed)
        parts == split_text_by_tokens(strip(s.text), target_tokens, overlap_tokens)
    IN flushed \o [p \in 1..Len(parts) |->
                     finalize(<< Sentence(parts[p], s.page) >>, n1 + p - 1)]

\* if s_tokens > target_tokens: flush, split, emit each part, i += 1
SplitOversized ==
    /\ InLoop
    /\ ~IsBlank(CurSentence)
    /\ tok_len(CurText) > target_tokens
    /\ chunks' = chunks \o OversizedChunks(CurSentence, cur, chunk_no)
    /\ chunk_no' = chunk_no + Len(OversizedChunks(CurSentence, cur, chunk_no))
    /\ cur' = <<>>
    /\ cur_toks' = 0
    /\ i' = i + 1
    /\ iters' = iters + 1
    /\ retries' = 0
    /\ UNCHANGED <<sentences, target_tokens, overlap_tokens, pc>>
    /\ UNCHANGED <<finalizeVars, splitVars, appVars>>

\* mutant: the budget test is made on the empty overlap too
RECURSIVE OverlapWalkStrict(_, _, _, _)
OverlapWalkStrict(prev_cur, x, overlap, overlap_toks) ==
    IF x = 0 THEN <<overlap, overlap_toks>>
    ELSE LET tt == tok_len(prev_cur[x].text) IN
         IF overlap_toks + tt > overlap_tokens
         THEN <<overlap, overlap_toks>>
         ELSE OverlapWalkStrict(prev_cur, x - 1, <<prev_cur[x]>> \o overlap,
                                overlap_toks + tt)

\* the overlap walk: sentences taken from the end of prev_cur, newest first
RECURSIVE OverlapWalk(_, _, _, _)
OverlapWalk(prev_cur, x, overlap, overlap_toks) ==
    IF x = 0 THEN <<overlap, overlap_toks>>
    ELSE LET tt == tok_len(prev_cur[x].text) IN
         IF overlap /= <<>> /\ overlap_toks + tt > overlap_tokens
         THEN <<overlap, overlap_toks>>
         ELSE OverlapWalk(prev_cur, x - 1, <<prev_cur[x]>> \o overlap, overlap_toks + tt)

\* mutant: the degeneracy guard is missing
NextAccumulatorNoGuard(prev_cur, prev_toks) ==
    OverlapWalk(prev_cur, Len(prev_cur), <<>>, 0)

\* mutant: cur_toks is reset although the accumulator is seeded
NextAccumulatorNoCount(prev_cur, prev_toks) ==
    LET walked == OverlapWalk(prev_cur, Len(prev_cur), <<>>, 0) IN
    IF Len(walked[1]) = Len(prev_cur) /\ walked[2] = prev_toks
    THEN << <<>>, 0 >>
    ELSE << walked[1], 0 >>

\* mutant: the guard spares an overlap of a single sentence
NextAccumulatorKeepSingle(prev_cur, prev_toks) ==
    LET walked == OverlapWalk(prev_cur, Len(prev_cur), <<>>, 0) IN
    IF Len(prev_cur) > 1 /\ Len(walked[1]) = Len(prev_cur)
                         /\ walked[2] = prev_toks
    THEN << <<>>, 0 >>
    ELSE walked

\* overlap after overlap.reverse() and the degeneracy guard
NextAccumulator(prev_cur, prev_toks) ==
    LET walked == OverlapWalk(prev_cur, Len(prev_cur), <<>>, 0) IN
    IF Len(walked[1]) = Len(prev_cur) /\ walked[2] = prev_toks
    THEN << <<>>, 0 >>
    ELSE walked

\* mutant: the input pointer advances instead of retrying the sentence
FinalizeAndSkip ==
    /\ InLoop
    /\ ~IsBlank(CurSentence)
    /\ ~(tok_len(CurText) > target_tokens)
    /\ cur /= <<>> /\ cur_toks + tok_len(CurText) > target_tokens
    /\ chunks' = Append(chunks, finalize(cur, chunk_no))
    /\ cur' = NextAccumulator(cur, cur_toks)[1]
    /\ cur_toks' = NextAccumulator(cur, cur_toks)[2]
    /\ chunk_no' = chunk_no + 1
    /\ i' = i + 1
    /\ iters' = iters + 1
    /\ retries' = 0
    /\ UNCHANGED <<sentences, target_tokens, overlap_tokens, pc>>
    /\ UNCHANGED <<finalizeVars, splitVars, appVars>>

\* if cur and cur_toks + s_tokens > target_tokens: finalize, overlap, continue
FinalizeAndRetry ==
    /\ InLoop
    /\ ~IsBlank(CurSentence)
    /\ ~(tok_len(CurText) > target_tokens)
    /\ cur /= <<>> /\ cur_toks + tok_len(CurText) > target_tokens
    /\ chunks' = Append(chunks, finalize(cur, chunk_no))
    /\ LET acc == NextAccumulator(cur, cur_toks) IN
          /\ cur' = acc[1]
          /\ cur_toks' = acc[2]
    /\ chunk_no' = chunk_no + 1
    /\ iters' = iters + 1
    /\ retries' = retries + 1
    /\ UNCHANGED <<sentences, target_tokens, overlap_tokens, i, pc>>
    /\ UNCHANGED <<finalizeVars, splitVars, appVars>>

\* cur.append(s); cur_toks += s_tokens; i += 1
AddSentence ==
    /\ InLoop
    /\ ~IsBlank(CurSentence)
    /\ ~(tok_len(CurText) > target_tokens)
    /\ ~(cur /= <<>> /\ cur_toks + tok_len(CurText) > target_tokens)
    /\ cur' = Append(cur, CurSentence)
    /\ cur_toks' = cur_toks + tok_len(CurText)
    /\ i' = i + 1
    /\ iters' = iters + 1
    /\ retries' = 0
    /\ UNCHANGED <<sentences, target_tokens, overlap_tokens, chunk_no, chunks, pc>>
    /\ UNCHANGED <<finalizeVars, splitVars, appVars>>

\* after the loop: if cur: chunks.append(finalize(cur, chunk_no)); return chunks
Return ==
    /\ pc = "loop"
    /\ ~(i < Len(sentences))
    /\ chunks' = IF cur /= <<>> THEN Append(chunks, finalize(cur, chunk_no))
                 ELSE chunks
    /\ pc' = "done"
    /\ UNCHANGED <<sentences, target_tokens, overlap_tokens, i, cur, cur_toks,
                   chunk_no, iters, retries>>
    /\ UNCHANGED <<finalizeVars, splitVars, appVars>>

Next ==
    \/ SkipBlank
    \/ SplitOversized
    \/ FinalizeAndRetry
    \/ AddSentence
    \/ Return

Spec == Init /\ [][Next]_vars

\* ---- reading the emitted chunks ----
\* the input sentences a raw_text holds tokens of, in order of appearance
RECURSIVE Ids(_)
Ids(raw) ==
    IF raw = <<>> THEN <<>>
    ELSE LET rest == Ids(Tail(raw))
             k == Head(raw)[1]
         IN IF k = 0 \/ (rest /= <<>> /\ Head(rest) = k) THEN rest
            ELSE <<k>> \o rest

Range(q) == {q[x] : x \in DOMAIN q}

TextIn(raw, k) == SelectSeq(raw, LAMBDA t : t[1] = k)

IsOversized(k) == tok_len(strip(sentences[k].text)) > target_tokens

\* a chunk made of a splitter piece
FromSplitter(c) ==
    LET ids == Ids(c.raw_text) IN ids /= <<>> /\ IsOversized(ids[1])

SentenceTokens(c) ==
    LET ids == Ids(c.raw_text) IN
    SeqSum([x \in 1..Len(ids) |-> tok_len(strip(sentences[ids[x]].text))])

\* a sentence with some text besides whitespace
HasText(s) == \E x \in DOMAIN s.text : ~IsSpace(s.text[x])

NonBlankIds ==
    SelectSeq([k \in 1..Len(sentences) |-> k], LAMBDA k : HasText(sentences[k]))

\* ids without the leading ones that the previous chunk holds too
RECURSIVE DropCarried(_, _)
DropCarried(ids, prevIds) ==
    IF ids /= <<>> /\ Head(ids) \in Range(prevIds)
    THEN DropCarried(Tail(ids), prevIds)
    ELSE ids

FreshIds(n) ==
    DropCarried(Ids(chunks[n].raw_text),
                IF n = 1 THEN <<>> ELSE Ids(chunks[n - 1].raw_text))

RECURSIVE FreshUpTo(_)
FreshUpTo(n) == IF n = 0 THEN <<>> ELSE FreshUpTo(n - 1) \o FreshIds(n)

IsRunOf(ids, q) ==
    \E a \in 0..Len(q) : \E b \in a..Len(q) : ids = SubSeq(q, a + 1, b)

NonSpace(text) == {text[x] : x \in {y \in DOMAIN text : ~IsSpace(text[y])}}

\* C1: every chunk that is not a splitter piece has a token total, summed
\* over its sentences, of at most the target budget
C1_Budget ==
    \A n \in 1..Len(chunks) :
        ~FromSplitter(chunks[n]) => SentenceTokens(chunks[n]) <= target_tokens

\* a full chunk of two sentences whose first was carried over as overlap
C1_Witness ==
    \E n \in 2..Len(chunks) :
        LET ids == Ids(chunks[n].raw_text) IN
        /\ ~FromSplitter(chunks[n])
        /\ Len(ids) >= 2
        /\ ids[1] \in Range(Ids(chunks[n - 1].raw_text))
        /\ SentenceTokens(chunks[n]) = target_tokens

\* C2: the chunk numbers are 1, 2, ..., N in emission order
C2_Numbering ==
    \A n \in 1..Len(chunks) : chunks[n].chunk_number = n

\* a chunk flushed before an oversized sentence, two pieces, a final flush
C2_Witness ==
    /\ pc = "done"
    /\ Len(chunks) = 4
    /\ ~FromSplitter(chunks[1])
    /\ FromSplitter(chunks[2])
    /\ FromSplitter(chunks[3])
    /\ ~FromSplitter(chunks[4])

\* C3: the chunks, read in order without the carried-over leading sentences,
\* give the non-blank input sentences in order, each once and whole
C3_Reconstruct ==
    (pc = "done" /\ sentences /= <<>>) =>
        /\ FreshUpTo(Len(chunks)) = NonBlankIds
        /\ \A n \in 1..Len(chunks) :
              /\ IsRunOf(Ids(chunks[n].raw_text), NonBlankIds)
              /\ \A k \in Range(Ids(chunks[n].raw_text)) :
                    ~IsOversized(k) =>
                        TextIn(chunks[n].raw_text, k) = sentences[k].text
        /\ \A k \in Range(NonBlankIds) :
              NonSpace(sentences[k].text) \subseteq
                  UNION {Range(chunks[n].raw_text) : n \in 1..Len(chunks)}

\* three sentences, the middle one in two chunks
C3_Witness ==
    /\ pc = "done"
    /\ Len(NonBlankIds) >= 3
    /\ \E n \in 2..Len(chunks) :
          /\ FreshIds(n) /= Ids(chunks[n].raw_text)
          /\ FreshIds(n) /= <<>>

\* what is left to do: three iterations for each sentence not yet passed,
\* less the retries already spent on the current one
Remaining == 3 * (Len(sentences) - i) - retries

\* C4: chunk_sentences returns after at most three loop iterations per
\* sentence: every iteration uses up Remaining, which never goes below zero,
\* at most two iterations in a row leave the input pointer where it is, and
\* the splitter visits at most one window per token
C4_Termination ==
    /\ [][pc = "loop" => (Remaining' < Remaining \/ pc' = "done")]_vars
    /\ [](/\ Remaining >= 0
          /\ retries <= 2
          /\ iters <= 3 * Len(sentences)
          /\ \A k \in 1..i :
                Len(SplitWindows(tok_len(sentences[k].text), target_tokens,
                                 overlap_tokens)) <= tok_len(sentences[k].text))

\* a sentence that was retried twice before it was placed
C4_Witness == retries = 2 /\ cur = <<>> /\ i < Len(sentences)

\* C5: every chunk has non-empty raw_text made of at least one sentence
C5_NonEmpty ==
    \A n \in 1..Len(chunks) :
        chunks[n].raw_text /= <<>> /\ Ids(chunks[n].raw_text) /= <<>>

\* an oversized sentence with a whitespace-only window: fewer chunks than windows
C5_Witness ==
    \E k \in 1..Len(sentences) :
        /\ i >= k
        /\ HasText(sentences[k])
        /\ IsOversized(k)
        /\ Cardinality({n \in 1..Len(chunks) : k \in Range(Ids(chunks[n].raw_text))})
             < Len(SplitWindows(tok_len(sentences[k].text), target_tokens,
                                overlap_tokens))

\* C6: the result is empty exactly when no sentence has non-blank text, and
\* no blank sentence contributes to a chunk
C6_EmptyInput ==
    pc = "done" =>
        /\ (chunks = <<>>) <=> (NonBlankIds = <<>>)
        /\ \A n \in 1..Len(chunks) :
              Range(Ids(chunks[n].raw_text)) \subseteq Range(NonBlankIds)

C6_WitnessNoSentences == pc = "done" /\ sentences = <<>> /\ chunks = <<>>

\* blank sentences around a real one: skipped, one chunk
C6_Witness ==
    /\ pc = "done"
    /\ Len(sentences) >= 3
    /\ Len(NonBlankIds) = 1
    /\ Len(chunks) = 1

\* the step taken on an oversized sentence
OversizedStep ==
    /\ pc = "loop"
    /\ i < Len(sentences)
    /\ i' = i + 1
    /\ HasText(CurSentence)
    /\ IsOversized(i + 1)

CurIds == [x \in 1..Len(cur) |-> Ids(cur[x].text)[1]]

\* C10: on an oversized sentence the non-empty accumulator is emitted first,
\* then each splitter piece as a chunk of its own with the sentence's page,
\* in piece order, and the accumulator is left empty
C10_Oversized ==
    [][OversizedStep =>
        LET base == Len(chunks)
            f == IF cur /= <<>> THEN 1 ELSE 0
            parts == split_text_by_tokens(strip(CurSentence.text),
                                          target_tokens, overlap_tokens)
        IN /\ Len(chunks') = base + f + Len(parts)
           /\ SubSeq(chunks', 1, base) = chunks
           /\ f = 1 => Ids(chunks'[base + 1].raw_text) = CurIds
           /\ Len(parts) >= 1
           /\ \A p \in 1..Len(parts) :
                 LET c == chunks'[base + f + p] IN
                 /\ c.raw_text = parts[p]
                 /\ Range(Ids(c.raw_text)) = {i + 1}
                 /\ c.page_number =
                      IF CurSentence.page = NoPage THEN ToString(base + f + p)
                      ELSE ToString(CurSentence.page)
           /\ cur' = <<>>
           /\ cur_toks' = 0
    ]_vars

\* a flushed accumulator, two pieces of a paged sentence, then a fresh chunk
C10_Witness ==
    /\ pc = "done"
    /\ \E n \in 1..(Len(chunks) - 3) :
          /\ ~FromSplitter(chunks[n])
          /\ FromSplitter(chunks[n + 1])
          /\ FromSplitter(chunks[n + 2])
          /\ ~FromSplitter(chunks[n + 3])
          /\ sentences[Ids(chunks[n + 1].raw_text)[1]].page /= NoPage
          /\ Ids(chunks[n + 3].raw_text)[1] = Ids(chunks[n + 2].raw_text)[1] + 1

\* the step that finalizes the accumulator because the sentence does not fit
RetryStep ==
    /\ pc = "loop"
    /\ i < Len(sentences)
    /\ i' = i
    /\ Len(chunks') = Len(chunks) + 1

TokensOf(sents) ==
    SeqSum([x \in 1..Len(sents) |-> Len(sents[x].text)])

IsSuffixOf(q, whole) ==
    /\ Len(q) <= Len(whole)
    /\ q = SubSeq(whole, Len(whole) - Len(q) + 1, Len(whole))

\* C11: the overlap computed from a chunk finalized by the normal branch is
\* a non-empty suffix of the chunk's sentences in their order, of at most O
\* tokens unless it is a single sentence; it and its token total become the
\* next accumulator unless it is the whole chunk, which is discarded
C11_Overlap ==
    [][RetryStep =>
        LET walked == OverlapWalk(cur, Len(cur), <<>>, 0)
            overlap == walked[1]
            whole == Len(overlap) = Len(cur) /\ walked[2] = cur_toks
        IN /\ Len(overlap) >= 1
           /\ IsSuffixOf(overlap, cur)
           /\ walked[2] = TokensOf(overlap)
           /\ Len(overlap) = 1 \/ walked[2] <= overlap_tokens
           /\ ~whole => cur' = overlap /\ cur_toks' = walked[2]
           /\ whole => cur' = <<>> /\ cur_toks' = 0
           /\ chunks'[Len(chunks')].raw_text
                 = strip(join([x \in 1..Len(cur) |-> cur[x].text]))
    ]_vars

\* one sentence carried over although it alone exceeds the overlap budget
C11_Witness ==
    /\ retries = 1
    /\ Len(cur) = 1
    /\ cur_toks > overlap_tokens
    /\ cur_toks = TokensOf(cur)

\* the sentence tokens two chunks have in common
SharedTokens(m, n) ==
    NonSpace(chunks[m].raw_text) \cap NonSpace(chunks[n].raw_text)

\* C12: an overlap that is the entire just-finalized chunk (same sentence
\* count, same token total) is discarded and the next accumulator is empty;
\* that is the case whenever O >= T and whenever the chunk is one sentence;
\* so with O >= T no sentence text appears in more than one chunk
C12_Degenerate ==
    /\ [][RetryStep =>
            LET walked == OverlapWalk(cur, Len(cur), <<>>, 0)
                whole == Len(walked[1]) = Len(cur) /\ walked[2] = cur_toks
            IN /\ whole => cur' = <<>> /\ cur_toks' = 0
               /\ overlap_tokens >= target_tokens => whole
               /\ Len(cur) = 1 => whole
               /\ (overlap_tokens >= target_tokens \/ Len(cur) = 1)
                     => cur' = <<>> /\ cur_toks' = 0
       ]_vars
    /\ [](overlap_tokens >= target_tokens =>
            \A n \in 1..Len(chunks) : \A m \in 1..(n - 1) :
                SharedTokens(m, n) = {})

\* O >= T: a chunk of two sentences was finalized, all of it was the
\* overlap, and the accumulator restarted empty
C12_Witness ==
    /\ overlap_tokens >= target_tokens
    /\ retries = 1
    /\ cur = <<>>
    /\ chunks /= <<>>
    /\ Len(Ids(chunks[Len(chunks)].raw_text)) = 2

\* T = O and one sentence of T tokens per chunk: the sentences are emitted
\* once each
C12_WitnessOnePerChunk ==
    /\ overlap_tokens = target_tokens
    /\ target_tokens >= 2
    /\ pc = "done"
    /\ Len(chunks) = 3
    /\ \A n \in 1..3 :
          /\ Ids(chunks[n].raw_text) = <<n>>
          /\ tok_len(chunks[n].raw_text) = target_tokens

\* sentence ids held by the chunks before chunk n
EarlierIds(n) ==
    UNION {Range(Ids(chunks[m].raw_text)) : m \in 1..(n - 1)}

\* C13: every chunk that is not a splitter piece contains an input sentence
\* that no earlier chunk contains, so no chunk is made only of the overlap
\* carried over from the chunk before it
C13_FreshSentence ==
    \A n \in 1..Len(chunks) :
        ~FromSplitter(chunks[n]) =>
            \E k \in Range(Ids(chunks[n].raw_text)) : k \notin EarlierIds(n)

\* ---- finalize applied to one sentence set ----
LabelSentences ==
    UNION {[1..n -> {Sentence(<< <<1, 1, FALSE>> >>, pg) : pg \in {NoPage} \cup 1..MaxLabelPage}]
           : n \in 0..MaxLabelLen}

FinalizeInit ==
    /\ ChunkerIdle /\ SplitIdle /\ AppIdle
    /\ fz_current \in LabelSentences
    /\ fz_n \in 1..MaxLabelNo
    /\ fz_out = <<>>

FinalizeCall ==
    /\ fz_out = <<>>
    /\ fz_out' = << finalize(fz_current, fz_n) >>
    /\ UNCHANGED <<fz_current, fz_n, chunkVars, splitVars, appVars>>

FinalizeNext == FinalizeCall

SpecFinalize == FinalizeInit /\ [][FinalizeNext]_vars

\* the label the page rule gives a set of pages and a chunk number
RECURSIVE Ascending(_)
Ascending(P) ==
    IF P = {} THEN <<>>
    ELSE LET lo == CHOOSE p \in P : \A q \in P : p <= q
         IN <<lo>> \o Ascending(P \ {lo})

RECURSIVE CommaList(_)
CommaList(q) ==
    IF Len(q) = 1 THEN ToString(q[1])
    ELSE ToString(q[1]) \o "," \o CommaList(Tail(q))

PageRule(P, n) ==
    LET asc == Ascending(P)
        lo == asc[1]
        hi == asc[Len(asc)]
    IN IF P = {} THEN ToString(n)
       ELSE IF Cardinality(P) = 1 THEN ToString(lo)
       ELSE IF hi - lo + 1 = Cardinality(P) THEN ToString(lo) \o "-" \o ToString(hi)
       ELSE CommaList(asc)

LabelOf(pages, n) ==
    PageStr([x \in 1..Len(pages) |-> Sentence(<<>>, pages[x])], n)

NonNullPages(current) ==
    {current[x].page : x \in DOMAIN current} \ {NoPage}

\* C7: the page label is the chunk number when no sentence has a page, the
\* page when there is one, "first-last" when the distinct pages form one
\* contiguous run, and otherwise all distinct pages in ascending order joined
\* by commas
C7_PageLabel ==
    /\ fz_out /= <<>> =>
          fz_out[1].page_number = PageRule(NonNullPages(fz_current), fz_n)
    /\ LabelOf(<<5>>, 1) = "5"
    /\ LabelOf(<<3, 4, 5>>, 1) = "3-5"
    /\ LabelOf(<<1, 2, 5>>, 1) = "1,2,5"
    /\ LabelOf(<<1, 2, 3, 7, 8, 9>>, 1) = "1,2,3,7,8,9"
    /\ LabelOf(<<NoPage, NoPage>>, 7) = "7"

\* a set with a gap, given out of order with a page-less sentence among them
C7_Witness ==
    /\ fz_out /= <<>>
    /\ Len(fz_current) = 3
    /\ fz_current[1].page = 5
    /\ fz_current[2].page = NoPage
    /\ fz_current[3].page = 1
    /\ fz_out[1].page_number = "1,5"

\* ---- _split_text_by_tokens applied to one text ----
SplitInit ==
    /\ ChunkerIdle /\ FinalizeIdle /\ AppIdle
    /\ sp_text \in {Words(1, n) : n \in 1..MaxSplitLen}
    /\ sp_max \in 1..MaxSplitT
    /\ sp_overlap \in 0..MaxSplitO
    /\ sp_out = <<>>

SplitCall ==
    /\ sp_out = <<>>
    /\ sp_out' = split_text_by_tokens(sp_text, sp_max, sp_overlap)
    /\ UNCHANGED <<sp_text, sp_max, sp_overlap, chunkVars, finalizeVars, appVars>>

SplitNext == SplitCall

SpecSplit == SplitInit /\ [][SplitNext]_vars

\* the window [start, end) a piece of an all-words text was cut from
WindowOf(piece) == <<piece[1][2] - 1, piece[Len(piece)][2]>>

\* the windows of the claim: [k*step, min(k*step + T, n)) for k = 0, 1, ...
\* up to the first one that ends at n
ClaimStep(T, O) == IF T - O > 0 THEN T - O ELSE T

ClaimWindows(n, T, O) ==
    LET step == ClaimStep(T, O)
        last == CHOOSE k \in 0..n :
                   /\ k * step + T >= n
                   /\ \A j \in 0..(k - 1) : j * step + T < n
    IN [x \in 1..(last + 1) |-> <<(x - 1) * step, Min2((x - 1) * step + T, n)>>]

\* C8: a text of n > T tokens is cut into the windows [k*step, min(k*step+T, n))
\* with step = T - O if positive, else T, up to the first window ending at n;
\* each has at most T tokens and together they cover every token
C8_Windows ==
    /\ (sp_out /= <<>> /\ Len(sp_text) > sp_max) =>
          LET got == [x \in 1..Len(sp_out) |-> WindowOf(sp_out[x])] IN
          /\ got = ClaimWindows(Len(sp_text), sp_max, sp_overlap)
          /\ \A x \in 1..Len(sp_out) :
                /\ Len(sp_out[x]) <= sp_max
                /\ sp_out[x] = SubSeq(sp_text, got[x][1] + 1, got[x][2])
          /\ UNION {Range(sp_out[x]) : x \in 1..Len(sp_out)} = Range(sp_text)
          /\ \A x \in 1..Len(sp_out) : got[x][2] = Len(sp_text) <=> x = Len(sp_out)
    /\ SplitWindows(5000, TARGET_CHUNK_TOKENS, OVERLAP_TOKENS)
          = << <<0, 2000>>, <<1800, 3800>>, <<3600, 5000>> >>

\* three overlapping windows, the last one short
C8_Witness ==
    /\ Len(sp_text) = 8
    /\ sp_max = 4
    /\ sp_overlap = 1
    /\ Len(sp_out) = 3
    /\ Len(sp_out[3]) = 2

\* overlap >= budget: the step falls back to T and the loop still ends
C8_WitnessDegenerate ==
    /\ sp_overlap >= sp_max
    /\ Len(sp_text) > 2 * sp_max
    /\ Len(sp_out) >= 3

\* ---- app.py: upload_file and delete_file ----
\* A request is handled by a server thread (app.run serves threaded); every
\* call of a collaborator (disk, parser, embedding API, chroma, sqlite) is
\* one step, and may fail where the handler provides for a failure.
Threads == 1..MaxReqs

IdleReq == [op |-> "idle", at |-> "idle", file_id |-> 0, n |-> 0]

Req(r) == reqs[r]

At(r, op, at) == Req(r).op = op /\ Req(r).at = at

Goto(r, at) == reqs' = [reqs EXCEPT ![r].at = at]

Finish(r) == reqs' = [reqs EXCEPT ![r] = IdleReq]

RowIds == {row[1] : row \in rows}

EntriesOf(file_id) == {e \in store : e[1] = file_id}

AppInit ==
    /\ ChunkerIdle /\ FinalizeIdle /\ SplitIdle
    /\ rows = {}
    /\ store = {}
    /\ disk = {}
    /\ next_id = 1
    /\ reqs = [r \in Threads |-> IdleReq]

\* upload_file, lines 94-111: no API key, no file, no name or a bad extension
UploadRejected(r) ==
    /\ At(r, "idle", "idle")
    /\ UNCHANGED <<rows, store, disk, next_id, reqs>>
    /\ UNCHANGED <<chunkVars, finalizeVars, splitVars>>

\* lines 113-118: file_id = uuid4(); f.save(storage_path)
UploadSave(r) ==
    /\ At(r, "idle", "idle")
    /\ next_id <= MaxFiles
    /\ disk' = disk \cup {next_id}
    /\ next_id' = next_id + 1
    /\ reqs' = [reqs EXCEPT ![r] =
                  [op |-> "upload", at |-> "size", file_id |-> next_id, n |-> 0]]
    /\ UNCHANGED <<rows, store>>
    /\ UNCHANGED <<chunkVars, finalizeVars, splitVars>>

\* lines 120-125: the hard size check
UploadSize(r) ==
    /\ At(r, "upload", "size")
    /\ \/ /\ disk' = disk \ {Req(r).file_id}
          /\ Finish(r)
       \/ /\ Goto(r, "parse")
          /\ UNCHANGED disk
    /\ UNCHANGED <<rows, store, next_id>>
    /\ UNCHANGED <<chunkVars, finalizeVars, splitVars>>

\* lines 127-147: parse; on an error or no sentences unlink and return
UploadParse(r) ==
    /\ At(r, "upload", "parse")
    /\ \/ /\ disk' = disk \ {Req(r).file_id}
          /\ Finish(r)
       \/ /\ Goto(r, "chunk")
          /\ UNCHANGED disk
    /\ UNCHANGED <<rows, store, next_id>>
    /\ UNCHANGED <<chunkVars, finalizeVars, splitVars>>

\* lines 150-160: chunk_sentences; zero chunks: unlink and return
UploadChunk(r) ==
    /\ At(r, "upload", "chunk")
    /\ \E n \in 0..MaxChunks :
          IF n = 0
          THEN /\ disk' = disk \ {Req(r).file_id}
               /\ Finish(r)
          ELSE /\ reqs' = [reqs EXCEPT ![r].at = "embed", ![r].n = n]
               /\ UNCHANGED disk
    /\ UNCHANGED <<rows, store, next_id>>
    /\ UNCHANGED <<chunkVars, finalizeVars, splitVars>>

\* lines 163-175: orc.embeddings per batch; on an error unlink and return
UploadEmbed(r) ==
    /\ At(r, "upload", "embed")
    /\ \/ /\ disk' = disk \ {Req(r).file_id}
          /\ Finish(r)
       \/ /\ Goto(r, "add")
          /\ UNCHANGED disk
    /\ UNCHANGED <<rows, store, next_id>>
    /\ UNCHANGED <<chunkVars, finalizeVars, splitVars>>

\* ChromaStore.add_chunks: one entry file_id:chunk_number per chunk
add_chunks(file_id, n) == store \cup {<<file_id, k>> : k \in 1..n}

\* ChromaStore.delete_file: every entry whose metadata names the file
delete_file_entries(file_id) == store \ EntriesOf(file_id)

\* lines 187-197: chroma.add_chunks; on an error unlink and return
UploadAdd(r) ==
    /\ At(r, "upload", "add")
    /\ \/ /\ disk' = disk \ {Req(r).file_id}
          /\ Finish(r)
          /\ UNCHANGED store
       \/ /\ store' = add_chunks(Req(r).file_id, Req(r).n)
          /\ Goto(r, "insert")
          /\ UNCHANGED disk
    /\ UNCHANGED <<rows, next_id>>
    /\ UNCHANGED <<chunkVars, finalizeVars, splitVars>>

\* lines 200-211, 221-229: db.insert_file; on an error go and roll back
UploadInsert(r) ==
    /\ At(r, "upload", "insert")
    /\ \/ /\ rows' = rows \cup {<<Req(r).file_id, Req(r).n>>}
          /\ Finish(r)
       \/ /\ Goto(r, "rollback")
          /\ UNCHANGED rows
    /\ UNCHANGED <<store, disk, next_id>>
    /\ UNCHANGED <<chunkVars, finalizeVars, splitVars>>

\* lines 213-216: chroma.delete_file, its own failure swallowed
UploadRollback(r) ==
    /\ At(r, "upload", "rollback")
    /\ \/ store' = delete_file_entries(Req(r).file_id)
       \/ UNCHANGED store
    /\ Goto(r, "unlink")
    /\ UNCHANGED <<rows, disk, next_id>>
    /\ UNCHANGED <<chunkVars, finalizeVars, splitVars>>

\* lines 217-219: unlink and return
UploadUnlink(r) ==
    /\ At(r, "upload", "unlink")
    /\ disk' = disk \ {Req(r).file_id}
    /\ Finish(r)
    /\ UNCHANGED <<rows, store, next_id>>
    /\ UNCHANGED <<chunkVars, finalizeVars, splitVars>>

\* delete_file, lines 233-236: row = db.get_file(file_id); none: return
DeleteLookup(r, file_id) ==
    /\ At(r, "idle", "idle")
    /\ IF file_id \in RowIds
       THEN reqs' = [reqs EXCEPT ![r] =
                       [op |-> "delete", at |-> "chroma", file_id |-> file_id, n |-> 0]]
       ELSE UNCHANGED reqs
    /\ UNCHANGED <<rows, store, disk, next_id>>
    /\ UNCHANGED <<chunkVars, finalizeVars, splitVars>>

\* lines 239-243: chroma.delete_file; on an error return, the row kept
DeleteChroma(r) ==
    /\ At(r, "delete", "chroma")
    /\ \/ /\ store' = delete_file_entries(Req(r).file_id)
          /\ Goto(r, "unlink")
       \/ /\ UNCHANGED store
          /\ Finish(r)
    /\ UNCHANGED <<rows, disk, next_id>>
    /\ UNCHANGED <<chunkVars, finalizeVars, splitVars>>

\* lines 246-250: unlink the stored upload, an error swallowed
DeleteUnlink(r) ==
    /\ At(r, "delete", "unlink")
    /\ \/ disk' = disk \ {Req(r).file_id}
       \/ UNCHANGED disk
    /\ Goto(r, "row")
    /\ UNCHANGED <<rows, store, next_id>>
    /\ UNCHANGED <<chunkVars, finalizeVars, splitVars>>

\* lines 253-255: db.delete_file; an error is not caught and ends the request
DeleteRow(r) ==
    /\ At(r, "delete", "row")
    /\ \/ rows' = {row \in rows : row[1] /= Req(r).file_id}
       \/ UNCHANGED rows
    /\ Finish(r)
    /\ UNCHANGED <<store, disk, next_id>>
    /\ UNCHANGED <<chunkVars, finalizeVars, splitVars>>

AppNext ==
    \E r \in Threads :
        \/ UploadRejected(r)
        \/ UploadSave(r)
        \/ UploadSize(r)
        \/ UploadParse(r)
        \/ UploadChunk(r)
        \/ UploadEmbed(r)
        \/ UploadAdd(r)
        \/ UploadInsert(r)
        \/ UploadRollback(r)
        \/ UploadUnlink(r)
        \/ \E file_id \in 1..MaxFiles : DeleteLookup(r, file_id)
        \/ DeleteChroma(r)
        \/ DeleteUnlink(r)
        \/ DeleteRow(r)

SpecApp == AppInit /\ [][AppNext]_vars

\* C9: a registry row exists only if the vector store holds the chunks of
\* its document
C9_RowImpliesChunks ==
    \A row \in rows : \A k \in 1..row[2] : <<row[1], k>> \in store

\* the step on which thread r's upload_file returns without a registry row
UploadFailed(r) ==
    /\ Req(r).op = "upload"
    /\ reqs'[r] = IdleReq
    /\ Req(r).file_id \notin {row[1] : row \in rows'}

\* C14: when an upload_file request fails after the file was saved, the
\* stored file is gone, no registry row has the file id and the vector store
\* holds no entry of the file id, also when the rollback delete itself fails
C14_NoTrace ==
    [][\A r \in Threads :
          UploadFailed(r) =>
              /\ Req(r).file_id \notin disk'
              /\ \A row \in rows' : row[1] /= Req(r).file_id
              /\ \A e \in store' : e[1] /= Req(r).file_id
    ]_vars

====
